---- MODULE Spec2Model ----
(***************************************************************************)
(* demo-webhook-handle (src/app/main.py): configuration loading, the JSON  *)
(* canonicalizer, the HMAC signature helper and the three HTTP handlers.   *)
(*                                                                         *)
(* Text and bytes are sequences of one-character strings.  Three elements  *)
(* that are not ASCII are written as tokens: "<FF>" is the body byte 0xFF  *)
(* (never valid in UTF-8), "<E9>" and "<A0>" are the header characters     *)
(* U+00E9 and U+00A0 (header bytes 0xE9 and 0xA0, which the ASGI server    *)
(* decodes as latin-1).                                                    *)
(***************************************************************************)
EXTENDS Integers, Sequences, FiniteSets, Bags, TLC

\* ------------------------------------------------------------------ bounds
\* Requests that may be in flight at the same time.
MaxInFlight == 2
\* Ticks of the wall clock (time.time() in whole seconds, from 0).
MaxTime == 1
\* Hex characters of the digest that stands for hexdigest().
DigestLen == 3

\* --------------------------------------------------------------- characters
\* Python's None, and an environment variable that is not set.
None == "None"
Unset == "Unset"

\* The printable ASCII characters in code point order, 32 to 126 ("<60>" is the
\* grave accent, which a TLA+ string cannot hold).
Printable ==
  << " ", "!", "\"", "#", "$", "%", "&", "'", "(", ")", "*", "+", ",", "-", ".", "/",
     "0", "1", "2", "3", "4", "5", "6", "7", "8", "9", ":", ";", "<", "=", ">", "?",
     "@", "A", "B", "C", "D", "E", "F", "G", "H", "I", "J", "K", "L", "M", "N", "O",
     "P", "Q", "R", "S", "T", "U", "V", "W", "X", "Y", "Z", "[", "\\", "]", "^", "_",
     "<60>", "a", "b", "c", "d", "e", "f", "g", "h", "i", "j", "k", "l", "m", "n", "o",
     "p", "q", "r", "s", "t", "u", "v", "w", "x", "y", "z", "{", "|", "}", "~" >>

PrintableSet == { Printable[i] : i \in 1..Len(Printable) }

\* The code point (for a body, the byte value) of every element of the model.
CodePoint ==
  [c \in PrintableSet \cup {"\t", "\n", "\r", "<A0>", "<E9>", "<FF>"} |->
     IF c \in PrintableSet THEN 31 + (CHOOSE i \in 1..Len(Printable) : Printable[i] = c)
     ELSE IF c = "\t" THEN 9
     ELSE IF c = "\n" THEN 10
     ELSE IF c = "\r" THEN 13
     ELSE IF c = "<A0>" THEN 160
     ELSE IF c = "<E9>" THEN 233
     ELSE 255]

\* ord(c)
Ord(c) == CodePoint[c]

IsAscii(c) == Ord(c) < 128

\* str.isspace() on the characters of the model.
IsSpace(c) == c \in {" ", "\t", "\n", "\r", "<A0>"}

\* str.lower() on one character (only A-Z change among the model's characters).
LowerChar(c) == IF Ord(c) >= 65 /\ Ord(c) <= 90 THEN Printable[Ord(c) + 32 - 31] ELSE c

Lower(s) == [i \in 1..Len(s) |-> LowerChar(s[i])]

RECURSIVE LStrip(_)
LStrip(s) == IF s # <<>> /\ IsSpace(Head(s)) THEN LStrip(Tail(s)) ELSE s

RECURSIVE RStrip(_)
RStrip(s) ==
  IF s # <<>> /\ IsSpace(s[Len(s)]) THEN RStrip(SubSeq(s, 1, Len(s) - 1)) ELSE s

\* str.strip()
Strip(s) == RStrip(LStrip(s))

\* s.startswith(p)
StartsWith(s, p) == Len(s) >= Len(p) /\ SubSeq(s, 1, Len(p)) = p

\* The index of the first occurrence of c in s, 0 when there is none.
RECURSIVE FindFrom(_, _, _)
FindFrom(s, c, i) ==
  IF i > Len(s) THEN 0 ELSE IF s[i] = c THEN i ELSE FindFrom(s, c, i + 1)

\* s.split(c, 1)[1]: what follows the first c (the callers know there is one).
AfterFirst(s, c) == SubSeq(s, FindFrom(s, c, 1) + 1, Len(s))

\* Code point order on strings, as sorted() compares str keys.
RECURSIVE StrLess(_, _)
StrLess(a, b) ==
  IF b = <<>> THEN FALSE
  ELSE IF a = <<>> THEN TRUE
  ELSE IF Ord(Head(a)) # Ord(Head(b)) THEN Ord(Head(a)) < Ord(Head(b))
  ELSE StrLess(Tail(a), Tail(b))

DigitChars == <<"0", "1", "2", "3", "4", "5", "6", "7", "8", "9">>
Digits == { DigitChars[i] : i \in 1..10 }
DigitVal(c) == (CHOOSE i \in 1..10 : DigitChars[i] = c) - 1

\* str(n) for n >= 0
RECURSIVE IntToStr(_)
IntToStr(n) ==
  IF n < 10 THEN <<DigitChars[n + 1]>>
  ELSE Append(IntToStr(n \div 10), DigitChars[(n % 10) + 1])

\* --------------------------------------------------------------------- json
\* Python values that json.loads returns and json.dumps takes:
\*   [t |-> "int", v |-> n]      [t |-> "str", v |-> characters]
\*   [t |-> "lit", v |-> "true" | "false" | "null"]   (True, False, None)
\*   [t |-> "list", v |-> <<values>>]
\*   [t |-> "dict", v |-> << <<key, value>>, ... >>]  (in insertion order)
\* Modelled: objects, arrays, strings without escapes, non-negative integers,
\* the three literals and whitespace.  The bodies of the model hold no "\", no
\* "-", and no digit followed by "." or an exponent.
PyInt(n) == [t |-> "int", v |-> n]
PyStr(s) == [t |-> "str", v |-> s]
PyLit(l) == [t |-> "lit", v |-> l]
PyList(xs) == [t |-> "list", v |-> xs]
PyDict(ps) == [t |-> "dict", v |-> ps]
PyNone == PyLit("null")

JsonWs == {" ", "\t", "\n", "\r"}

\* A failed scan (the exception json raises), and a successful one: the value
\* and the index of the first character after it.
Fail == [ok |-> FALSE]
Got(val, end) == [ok |-> TRUE, val |-> val, end |-> end]

RECURSIVE SkipWs(_, _)
SkipWs(s, i) == IF i <= Len(s) /\ s[i] \in JsonWs THEN SkipWs(s, i + 1) ELSE i

\* dict(pairs): a repeated key keeps its first position and takes the last value.
RECURSIVE DictSet(_, _, _)
DictSet(ps, k, v) ==
  IF ps = <<>> THEN << <<k, v>> >>
  ELSE IF Head(ps)[1] = k THEN << <<k, v>> >> \o Tail(ps)
  ELSE <<Head(ps)>> \o DictSet(Tail(ps), k, v)

\* The characters of a string up to its closing quote; i follows the opening one.
RECURSIVE ScanString(_, _, _)
ScanString(s, i, acc) ==
  IF i > Len(s) THEN Fail
  ELSE IF s[i] = "\"" THEN Got(acc, i + 1)
  ELSE IF Ord(s[i]) < 32 THEN Fail
  ELSE ScanString(s, i + 1, Append(acc, s[i]))

RECURSIVE ScanDigits(_, _, _)
ScanDigits(s, i, n) ==
  IF i <= Len(s) /\ s[i] \in Digits THEN ScanDigits(s, i + 1, 10 * n + DigitVal(s[i]))
  ELSE Got(PyInt(n), i)

IsAt(s, i, word) == i + Len(word) - 1 <= Len(s) /\ SubSeq(s, i, i + Len(word) - 1) = word

RECURSIVE ScanOnce(_, _)
RECURSIVE ScanMembers(_, _, _)
RECURSIVE ScanItems(_, _, _)

\* JSONObject: i follows "{".
ScanObject(s, i) ==
  LET j == SkipWs(s, i) IN
  IF j > Len(s) THEN Fail
  ELSE IF s[j] = "}" THEN Got(PyDict(<<>>), j + 1)
  ELSE IF s[j] = "\"" THEN ScanMembers(s, j + 1, <<>>)
  ELSE Fail

\* The members of an object from a key on; i follows the key's opening quote.
ScanMembers(s, i, pairs) ==
  LET k == ScanString(s, i, <<>>) IN
  IF ~k.ok THEN Fail
  ELSE LET c == SkipWs(s, k.end) IN
  IF c > Len(s) \/ s[c] # ":" THEN Fail
  ELSE LET v == ScanOnce(s, SkipWs(s, c + 1)) IN
  IF ~v.ok THEN Fail
  ELSE LET e == SkipWs(s, v.end)
           more == DictSet(pairs, k.val, v.val) IN
  IF e > Len(s) THEN Fail
  ELSE IF s[e] = "}" THEN Got(PyDict(more), e + 1)
  ELSE IF s[e] # "," THEN Fail
  ELSE LET q == SkipWs(s, e + 1) IN
  IF q > Len(s) \/ s[q] # "\"" THEN Fail
  ELSE ScanMembers(s, q + 1, more)

\* JSONArray: i follows "[".
ScanArray(s, i) ==
  LET j == SkipWs(s, i) IN
  IF j > Len(s) THEN Fail
  ELSE IF s[j] = "]" THEN Got(PyList(<<>>), j + 1)
  ELSE ScanItems(s, j, <<>>)

ScanItems(s, i, vals) ==
  LET v == ScanOnce(s, i) IN
  IF ~v.ok THEN Fail
  ELSE LET e == SkipWs(s, v.end) IN
  IF e > Len(s) THEN Fail
  ELSE IF s[e] = "]" THEN Got(PyList(Append(vals, v.val)), e + 1)
  ELSE IF s[e] # "," THEN Fail
  ELSE ScanItems(s, SkipWs(s, e + 1), Append(vals, v.val))

\* scan_once: the value that starts at i.
ScanOnce(s, i) ==
  IF i > Len(s) THEN Fail
  ELSE IF s[i] = "\"" THEN
    LET r == ScanString(s, i + 1, <<>>) IN IF r.ok THEN Got(PyStr(r.val), r.end) ELSE Fail
  ELSE IF s[i] = "{" THEN ScanObject(s, i + 1)
  ELSE IF s[i] = "[" THEN ScanArray(s, i + 1)
  ELSE IF IsAt(s, i, <<"n", "u", "l", "l">>) THEN Got(PyLit("null"), i + 4)
  ELSE IF IsAt(s, i, <<"t", "r", "u", "e">>) THEN Got(PyLit("true"), i + 4)
  ELSE IF IsAt(s, i, <<"f", "a", "l", "s", "e">>) THEN Got(PyLit("false"), i + 5)
  ELSE IF s[i] = "0" THEN Got(PyInt(0), i + 1)
  ELSE IF s[i] \in Digits THEN ScanDigits(s, i, 0)
  ELSE Fail

\* raw.decode("utf-8") succeeds (every element but the byte 0xFF is ASCII).
DecodesUtf8(raw) == \A i \in 1..Len(raw) : IsAscii(raw[i])

\* json.loads(text): one value, whitespace around it, nothing else.
JsonLoads(text) ==
  LET r == ScanOnce(text, SkipWs(text, 1)) IN
  IF r.ok /\ SkipWs(text, r.end) = Len(text) + 1 THEN Got(r.val, r.end) ELSE Fail

\* json.loads(raw.decode("utf-8")), either step may raise.
LoadsBytes(raw) == IF DecodesUtf8(raw) THEN JsonLoads(raw) ELSE Fail

RECURSIVE Flatten(_)
Flatten(ss) == IF ss = <<>> THEN <<>> ELSE Head(ss) \o Flatten(Tail(ss))

RECURSIVE Join(_, _)
Join(sep, ss) ==
  IF ss = <<>> THEN <<>>
  ELSE IF Len(ss) = 1 THEN ss[1]
  ELSE ss[1] \o sep \o Join(sep, Tail(ss))

\* sorted(items) by key: insertion into a sorted sequence (keys are distinct).
RECURSIVE InsertPair(_, _)
InsertPair(p, ps) ==
  IF ps = <<>> THEN <<p>>
  ELSE IF StrLess(p[1], Head(ps)[1]) THEN <<p>> \o ps
  ELSE <<Head(ps)>> \o InsertPair(p, Tail(ps))

RECURSIVE SortPairs(_)
SortPairs(ps) == IF ps = <<>> THEN <<>> ELSE InsertPair(Head(ps), SortPairs(Tail(ps)))

\* The encoder's string form (ensure_ascii): quotes and backslashes escaped.
EncodeStr(s) ==
  <<"\"">> \o Flatten([i \in 1..Len(s) |->
                        IF s[i] \in {"\"", "\\"} THEN <<"\\", s[i]>> ELSE <<s[i]>>])
           \o <<"\"">>

LitChars(l) ==
  IF l = "null" THEN <<"n", "u", "l", "l">>
  ELSE IF l = "true" THEN <<"t", "r", "u", "e">>
  ELSE <<"f", "a", "l", "s", "e">>

\* json.dumps(v, separators=(item_sep, key_sep), sort_keys=sort_keys)
RECURSIVE JsonDumps(_, _, _, _)
JsonDumps(v, item_sep, key_sep, sort_keys) ==
  IF v.t = "int" THEN IntToStr(v.v)
  ELSE IF v.t = "str" THEN EncodeStr(v.v)
  ELSE IF v.t = "lit" THEN LitChars(v.v)
  ELSE IF v.t = "list" THEN
    <<"[">> \o Join(item_sep, [i \in 1..Len(v.v) |->
                                 JsonDumps(v.v[i], item_sep, key_sep, sort_keys)])
            \o <<"]">>
  ELSE
    LET ps == IF sort_keys THEN SortPairs(v.v) ELSE v.v IN
    <<"{">> \o Join(item_sep, [i \in 1..Len(ps) |->
                                 EncodeStr(ps[i][1]) \o key_sep
                                   \o JsonDumps(ps[i][2], item_sep, key_sep, sort_keys)])
            \o <<"}">>

\* ---------------------------------------------------------------- signature
\* hmac.new(key, msg, hashlib.sha256).hexdigest(): a keyed digest in lowercase
\* hex.  SHA-256 itself is library code; a DigestLen-character rolling hash over
\* the key bytes, a separator and the message bytes stands for it.  It keeps
\* what the callers rely on: a fixed-length lowercase hex string that is a
\* function of the key and of every byte of the message.
HexChars == <<"0", "1", "2", "3", "4", "5", "6", "7", "8", "9", "a", "b", "c", "d", "e", "f">>

\* The hash after the bytes lo..hi of a sequence, from the hash h before them.
\* The range is halved, and each half's result is a value before the next step
\* starts (an element of a one-element set is evaluated once), so that long
\* messages neither nest deeply nor are hashed again at every use.
RECURSIVE HashRange(_, _, _, _)
HashRange(h, bytes, lo, hi) ==
  IF lo > hi THEN h
  ELSE IF lo = hi THEN (h * 33 + Ord(bytes[lo])) % (16 ^ DigestLen)
  ELSE CHOOSE r \in { HashRange(left, bytes, mid + 1, hi) :
                        mid \in {(lo + hi) \div 2},
                        left \in {HashRange(h, bytes, lo, (lo + hi) \div 2)} } : TRUE

HashBytes(h, bytes) == HashRange(h, bytes, 1, Len(bytes))

RECURSIVE HexOf(_, _)
HexOf(n, len) ==
  IF len = 0 THEN <<>> ELSE Append(HexOf(n \div 16, len - 1), HexChars[(n % 16) + 1])

HmacHexDigest(key, msg) ==
  CHOOSE d \in { HexOf(HashBytes(HashBytes(HashBytes(7, key), <<":">>), m), DigestLen) :
                   m \in {msg} } : TRUE

Sha256Prefix == <<"s", "h", "a", "2", "5", "6", "=">>

\* _normalized_body_for_hmac(raw), with the arguments it gives json.dumps.
normalized_body_with(raw, item_sep, key_sep, sort_keys) ==
  CHOOSE out \in { IF data.ok THEN JsonDumps(data.val, item_sep, key_sep, sort_keys) ELSE raw :
                     data \in {LoadsBytes(raw)} } : TRUE

\* A canonicalizer that forgets sort_keys.
normalized_body_unsorted(raw) == normalized_body_with(raw, <<",">>, <<":">>, FALSE)

\* A canonicalizer that falls back to the body without its surrounding whitespace.
normalized_body_trimming(raw) ==
  CHOOSE out \in { IF data.ok THEN JsonDumps(data.val, <<",">>, <<":">>, TRUE) ELSE Strip(raw) :
                     data \in {LoadsBytes(raw)} } : TRUE

normalized_body_for_hmac(raw) == normalized_body_with(raw, <<",">>, <<":">>, TRUE)

compute_signature(secret, body) == Sha256Prefix \o HmacHexDigest(secret, body)

\* What a call does: it returns a value or raises.
Returned(val) == [raised |-> FALSE, val |-> val]
Raised(exc) == [raised |-> TRUE, exc |-> exc]

PyTrue == PyLit("true")
PyFalse == PyLit("false")

\* hmac.compare_digest(a, b) on two str: TypeError unless both are ASCII.
compare_digest(a, b) ==
  IF (\A i \in 1..Len(a) : IsAscii(a[i])) /\ (\A j \in 1..Len(b) : IsAscii(b[j]))
  THEN Returned(IF a = b THEN PyTrue ELSE PyFalse)
  ELSE Raised("TypeError")

\* The secret used for the displayed signature when none is configured.
DemoSecret == <<"d", "e", "m", "o", "-", "s", "e", "c", "r", "e", "t">>

\* The comparison with the prefix matched in lowercase only.
compare_supplied_exact_prefix(expected, header_signature) ==
  LET stripped == Strip(header_signature)
      supplied == IF StartsWith(stripped, Sha256Prefix)
                  THEN AfterFirst(stripped, "=") ELSE stripped
      expected_hex == AfterFirst(expected, "=")
      is_valid == compare_digest(supplied, expected_hex)
  IN IF is_valid.raised THEN is_valid ELSE Returned(<<is_valid.val, expected>>)

\* Lines 90-96 of verify_signature: the header value against the expected
\* signature.
compare_supplied(expected, header_signature) ==
  LET stripped == Strip(header_signature)
      supplied == IF StartsWith(Lower(stripped), Sha256Prefix)
                  THEN AfterFirst(stripped, "=") ELSE stripped
      expected_hex == AfterFirst(expected, "=")
      is_valid == compare_digest(supplied, expected_hex)
  IN IF is_valid.raised THEN is_valid ELSE Returned(<<is_valid.val, expected>>)

\* verify_signature as its docstring has it: a missing header is skipped too.
verify_signature_skipping_header(secret, body, header_signature) ==
  IF secret = <<>> THEN
    Returned(<<PyNone, compute_signature(DemoSecret, normalized_body_for_hmac(body))>>)
  ELSE IF header_signature = <<>> THEN
    Returned(<<PyNone, compute_signature(secret, normalized_body_for_hmac(body))>>)
  ELSE
    CHOOSE r \in { compare_supplied(expected, supplied) :
                     expected \in {compute_signature(secret, normalized_body_for_hmac(body))},
                     supplied \in {header_signature} } : TRUE

\* verify_signature comparing against the placeholder signature when no secret
\* is configured.
verify_signature_with_placeholder(secret, body, header_signature) ==
  CHOOSE r \in { compare_supplied(expected, supplied) :
                   expected \in {compute_signature(IF secret = <<>> THEN DemoSecret ELSE secret,
                                                   normalized_body_for_hmac(body))},
                   supplied \in {header_signature} } : TRUE

\* verify_signature(secret, body, header_signature): (is_valid, expected).
verify_signature(secret, body, header_signature) ==
  IF secret = <<>> THEN
    Returned(<<PyNone, compute_signature(DemoSecret, normalized_body_for_hmac(body))>>)
  ELSE
    CHOOSE r \in { compare_supplied(expected, supplied) :
                     expected \in {compute_signature(secret, normalized_body_for_hmac(body))},
                     supplied \in {header_signature} } : TRUE

\* ------------------------------------------------------------ configuration
VARIABLES
  environ,                 \* os.environ: variable name -> characters, or Unset
  phase,                   \* "importing" | "serving" | "failed" (import raised)
  PORT, ALLOWED_ORIGINS, ALLOW_NETLIFY_WILDCARD, WEBHOOK_SECRET,   \* module globals
  middleware,              \* what app.add_middleware installed
  now,                     \* int(time.time())
  pending,                 \* the POSTs suspended in `await request.body()` (a bag)
  answered,                \* the exchange answered last: <<>> or <<exchange>>
  client_seen,             \* the GET /demo/example answer the client got last
  call, ret                \* a direct call of the helpers: arguments, result

config == <<PORT, ALLOWED_ORIGINS, ALLOW_NETLIFY_WILDCARD, WEBHOOK_SECRET, middleware>>
vars == <<environ, phase, PORT, ALLOWED_ORIGINS, ALLOW_NETLIFY_WILDCARD, WEBHOOK_SECRET,
          middleware, now, pending, answered, client_seen, call, ret>>

\* os.getenv(name, default)
getenv(name, default) == IF environ[name] = Unset THEN default ELSE environ[name]

TruthyTokens == { <<"1">>, <<"t", "r", "u", "e">>, <<"y", "e", "s">>, <<"o", "n">> }

env_bool(name, default) == Lower(Strip(getenv(name, default))) \in TruthyTokens

\* raw.split(",")
RECURSIVE Split(_, _)
Split(s, c) ==
  LET i == FindFrom(s, c, 1) IN
  IF i = 0 THEN <<s>> ELSE <<SubSeq(s, 1, i - 1)>> \o Split(SubSeq(s, i + 1, Len(s)), c)

parse_csv_env(name, default) ==
  LET parts == Split(getenv(name, default), ",")
      kept == SelectSeq(parts, LAMBDA q : Strip(q) # <<>>)
  IN [i \in 1..Len(kept) |-> Strip(kept[i])]

\* int(text): surrounding whitespace and one sign allowed, then decimal digits;
\* anything else is a ValueError.
py_int(text) ==
  LET t == Strip(text)
      signed == t # <<>> /\ Head(t) \in {"+", "-"}
      digits == IF signed THEN Tail(t) ELSE t
  IN IF digits # <<>> /\ \A i \in 1..Len(digits) : digits[i] \in Digits
     THEN Returned((IF signed /\ Head(t) = "-" THEN -1 ELSE 1) * ScanDigits(digits, 1, 0).val.v)
     ELSE Raised("ValueError")

DefaultPort == <<"8", "0", "0", "4">>
DefaultOrigins ==
  <<"h", "t", "t", "p", ":", "/", "/", "l", "o", "c", "a", "l", "h", "o", "s", "t", ":",
    "4", "3", "2", "1", ",", "h", "t", "t", "p", "s", ":", "/", "/", "v", "i", "v", "i",
    "d", "s", "u", "i", "t", "e", ".", "i", "o">>
DefaultWildcard == <<"t", "r", "u", "e">>

\* CORSMiddleware as configured for the given origins and wildcard flag.
cors_middleware(origins, wildcard) ==
  [ allow_origins |-> origins,
    allow_origin_regex |-> IF wildcard THEN "^https://.*\\.netlify\\.app$" ELSE None,
    allow_credentials |-> FALSE,
    allow_methods |-> <<"GET", "POST", "OPTIONS">>,
    allow_headers |-> <<"*">>,
    max_age |-> 600 ]

\* Importing app.main: the module-level statements, in order.  An exception in
\* one of them ends the import and the process serves nothing.
Startup ==
  /\ phase = "importing"
  /\ LET port == py_int(getenv("PORT", DefaultPort))
         origins == parse_csv_env("ALLOWED_ORIGINS", DefaultOrigins)
         wildcard == env_bool("ALLOW_NETLIFY_WILDCARD", DefaultWildcard)
     IN IF port.raised
        THEN /\ phase' = "failed"
             /\ UNCHANGED config
        ELSE /\ phase' = "serving"
             /\ PORT' = port.val
             /\ ALLOWED_ORIGINS' = origins
             /\ ALLOW_NETLIFY_WILDCARD' = wildcard
             /\ WEBHOOK_SECRET' = getenv("WEBHOOK_SECRET", <<>>)
             /\ middleware' = Append(middleware, cors_middleware(origins, wildcard))
  /\ UNCHANGED <<environ, now, pending, answered, client_seen, call, ret>>

\* ----------------------------------------------------------------- handlers
\* An HTTP answer: 200 with the handler's dict, or the framework's 500 when the
\* handler raised.
Ok200(json) == [status |-> 200, json |-> json]
Error500(exc) == [status |-> 500, exc |-> exc]

\* healthz() at time t
healthz(t) == Ok200([status |-> "ok", service |-> "webhook-handle", time |-> t])

\* The dict demo_example_get builds, in the order its keys are written.
sample_event(t) ==
  PyDict(<<
    << <<"e", "v", "e", "n", "t">>,
       PyStr(<<"e", "x", "a", "m", "p", "l", "e", ".", "w", "e", "b", "h", "o", "o", "k">>) >>,
    << <<"i", "d">>, PyStr(<<"e", "v", "t", "_", "d", "e", "m", "o", "_", "1", "2", "3">>) >>,
    << <<"r", "e", "c", "e", "i", "v", "e", "d", "_", "a", "t">>, PyInt(t) >>,
    << <<"d", "a", "t", "a">>,
       PyDict(<< << <<"o", "b", "j", "e", "c", "t">>,
         PyDict(<<
           << <<"i", "d">>, PyStr(<<"o", "b", "j", "_", "d", "e", "m", "o", "_", "1", "2", "3">>) >>,
           << <<"a", "m", "o", "u", "n", "t">>, PyInt(1999) >>,
           << <<"c", "u", "r", "r", "e", "n", "c", "y">>, PyStr(<<"u", "s", "d">>) >>,
           << <<"t", "a", "g", "s">>,
              PyList(<< PyStr(<<"d", "e", "m", "o">>),
                        PyStr(<<"w", "e", "b", "h", "o", "o", "k">>),
                        PyStr(<<"h", "a", "n", "d", "l", "e">>) >>) >>
         >>) >> >>) >>
  >>)

HowToTest ==
  "POST JSON to /demo/example with header 'X-Signature: sha256=...' computed using your WEBHOOK_SECRET."

\* demo_example_get() with the configured secret, at time t; the event is signed
\* in the form json.dumps gives it with the arguments written here.
demo_example_get_with(secret, t, item_sep, key_sep, sort_keys) ==
  LET event == sample_event(t)
      example_sig ==
        IF secret # <<>>
        THEN PyStr(compute_signature(secret, JsonDumps(event, item_sep, key_sep, sort_keys)))
        ELSE PyNone
  IN Ok200([ service |-> "webhook-handle",
             example |-> event,
             how_to_test |-> HowToTest,
             signature_example |-> example_sig ])

\* demo_example_get signing the event as written, keys unsorted.
demo_example_get_unsorted(secret, t) == demo_example_get_with(secret, t, <<",">>, <<":">>, FALSE)

demo_example_get(secret, t) == demo_example_get_with(secret, t, <<",">>, <<":">>, TRUE)

XSignature == <<"X", "-", "S", "i", "g", "n", "a", "t", "u", "r", "e">>
xsignature == <<"x", "-", "s", "i", "g", "n", "a", "t", "u", "r", "e">>

\* request.headers.get(name): header names match in any letter case; the first
\* header of that name, or nothing.
RECURSIVE headers_get(_, _)
headers_get(headers, name) ==
  IF headers = <<>> THEN [found |-> FALSE]
  ELSE IF Lower(Head(headers)[1]) = Lower(name)
       THEN [found |-> TRUE, val |-> Head(headers)[2]]
       ELSE headers_get(Tail(headers), name)

\* request.headers.get("X-Signature") or request.headers.get("x-signature") or ""
supplied_signature(headers) ==
  LET a == headers_get(headers, XSignature)
      b == headers_get(headers, xsignature)
  IN IF a.found /\ a.val # <<>> THEN a.val
     ELSE IF b.found /\ b.val # <<>> THEN b.val
     ELSE <<>>

\* demo_example_post once the body has been read: raw is what request.body()
\* returned, t the time the answer is built.
post_response(verified, loaded, received_bytes, t) ==
  IF verified.raised THEN Error500(verified.exc)
  ELSE LET is_valid == verified.val[1]
           expected == verified.val[2]
           parsed == IF loaded.ok THEN loaded.val ELSE PyNone
       IN Ok200([ service |-> "webhook-handle",
                  received_bytes |-> received_bytes,
                  received |-> parsed,
                  signature_valid |-> is_valid,
                  expected_signature |-> expected,
                  note |-> IF is_valid = PyNone
                           THEN "signature check skipped (missing secret or header)"
                           ELSE "signature compared",
                  time |-> t ])

demo_example_post(secret, headers, raw, t) ==
  CHOOSE response \in
    { post_response(verified, loaded, Len(raw), t) :
        verified \in {verify_signature(secret, raw, supplied_signature(headers))},
        loaded \in {LoadsBytes(raw)} } : TRUE

\* ------------------------------------------------------------------ service
\* A body kept in one place for all requests: the handler reads what another
\* suspended request left there, when there is one.
request_body_shared(req, others) ==
  IF BagToSet(others) = {} THEN req.body ELSE (CHOOSE o \in BagToSet(others) : TRUE).body

\* await request.body() in the handler of request req, while the requests of
\* the bag `others` are suspended too: the body of this request.
request_body(req, others) == req.body

\* The secret the clients of the model sign with.
ClientSecret == <<"a", "b", "c">>

\* the body of the documented scenario
BodyBA == <<"{", "\"", "b", "\"", ":", "2", ",", "\"", "a", "\"", ":", "1", "}">>
\* malformed JSON
BodyCut == <<"{", "\"", "a", "\"", ":", "1">>
\* not UTF-8
BodyBadUtf8 == <<"<FF>">>

DeadBeef == <<"d", "e", "a", "d", "b", "e", "e", "f">>

\* What a client signing body b with ClientSecret sends as X-Signature.
ClientSignature(b) == compute_signature(ClientSecret, normalized_body_for_hmac(b))

\* The header list with one X-Signature header, under the given name.
SignatureHeader(name, value) == << <<name, value>> >>

\* A client writes a dict's keys in the reverse order.
RECURSIVE ReverseKeys(_)
ReverseKeys(v) ==
  IF v.t = "dict" THEN
    PyDict([i \in 1..Len(v.v) |->
             <<v.v[Len(v.v) + 1 - i][1], ReverseKeys(v.v[Len(v.v) + 1 - i][2])>>])
  ELSE IF v.t = "list" THEN PyList([i \in 1..Len(v.v) |-> ReverseKeys(v.v[i])])
  ELSE v

\* The bodies a client makes of an example object it was given: the object as
\* the answer carried it, and with the keys reversed and spaces after "," and ":".
ExampleBodies(example) ==
  { JsonDumps(example, <<",">>, <<":">>, FALSE),
    JsonDumps(ReverseKeys(example), <<",", " ">>, <<":", " ">>, FALSE) }

\* The POST a client makes of the answer to GET /demo/example it holds.
ExamplePosts ==
  IF client_seen = <<>> THEN {}
  ELSE LET got == client_seen[1]
           hs == IF got.signature_example.t = "str"
                 THEN SignatureHeader(XSignature, got.signature_example.v)
                 ELSE <<>>
       IN { [headers |-> hs, body |-> b] : b \in ExampleBodies(got.example) }

\* The other POSTs of the clients: the documented scenario rightly signed (under
\* the lowercase header name), the same with a wrong signature, malformed JSON
\* without a signature, and bytes that are not UTF-8 with a signature that is
\* not ASCII.
ClientPosts ==
  { [headers |-> SignatureHeader(xsignature, ClientSignature(BodyBA)), body |-> BodyBA],
    [headers |-> SignatureHeader(XSignature, Sha256Prefix \o DeadBeef), body |-> BodyBA],
    [headers |-> <<>>, body |-> BodyCut],
    [headers |-> SignatureHeader(XSignature, <<"<E9>">>), body |-> BodyBadUtf8] }

\* An answered request with its answer.
Exchange(method, path, headers, body, response) ==
  [method |-> method, path |-> path, headers |-> headers, body |-> body,
   response |-> response]

\* The clock moves on.
Tick ==
  /\ now < MaxTime
  /\ now' = now + 1
  /\ UNCHANGED <<environ, phase, config, pending, answered, client_seen, call, ret>>

\* GET /healthz: the handler runs to its end without suspending.
GetHealthz ==
  /\ phase = "serving"
  /\ answered' = <<Exchange("GET", "/healthz", <<>>, <<>>, healthz(now))>>
  /\ UNCHANGED <<environ, phase, config, now, pending, client_seen, call, ret>>

\* GET /demo/example: the handler runs to its end without suspending; the
\* client keeps the answer.
GetExample ==
  /\ phase = "serving"
  /\ LET response == demo_example_get(WEBHOOK_SECRET, now) IN
       /\ answered' = <<Exchange("GET", "/demo/example", <<>>, <<>>, response)>>
       /\ client_seen' = <<response.json>>
  /\ UNCHANGED <<environ, phase, config, now, pending, call, ret>>

\* POST /demo/example arrives: the handler starts and suspends in
\* `await request.body()`.
PostArrives ==
  /\ phase = "serving"
  /\ BagCardinality(pending) < MaxInFlight
  /\ \E req \in ClientPosts \cup ExamplePosts : pending' = pending (+) SetToBag({req})
  /\ UNCHANGED <<environ, phase, config, now, answered, client_seen, call, ret>>

\* The body of one suspended POST has been read: the rest of
\* demo_example_post runs to its end.
PostCompletes ==
  /\ phase = "serving"
  /\ \E req \in BagToSet(pending) :
       LET others == pending (-) SetToBag({req})
           raw == request_body(req, others)
       IN /\ pending' = others
          /\ answered' = <<Exchange("POST", "/demo/example", req.headers, req.body,
                             demo_example_post(WEBHOOK_SECRET, req.headers, raw, now))>>
  /\ UNCHANGED <<environ, phase, config, now, client_seen, call, ret>>

NoEnv == [n \in {"PORT", "ALLOWED_ORIGINS", "ALLOW_NETLIFY_WILDCARD", "WEBHOOK_SECRET"} |-> Unset]

\* The process before app.main is imported, in environment env.
Boot(env) ==
  /\ environ = env
  /\ phase = "importing"
  /\ PORT = 0
  /\ ALLOWED_ORIGINS = <<>>
  /\ ALLOW_NETLIFY_WILDCARD = FALSE
  /\ WEBHOOK_SECRET = <<>>
  /\ middleware = <<>>
  /\ now = 0
  /\ pending = EmptyBag
  /\ answered = <<>>
  /\ client_seen = <<>>

NoCall == [fn |-> "none"]

\* The service, with and without a secret configured.
Init ==
  /\ \E secret \in {Unset, ClientSecret} : Boot([NoEnv EXCEPT !["WEBHOOK_SECRET"] = secret])
  /\ call = NoCall
  /\ ret = <<>>

Next ==
  \/ Startup
  \/ Tick
  \/ GetHealthz
  \/ GetExample
  \/ PostArrives
  \/ PostCompletes

Spec == Init /\ [][Next]_vars

\* ------------------------------------------------------- configuration alone
\* Values of the four environment variables: unset, well-formed, malformed.
EnvPort == { Unset, <<"9", "0", "0", "0">>, <<" ", "8", "0", " ">>, <<"a", "b", "c">>, <<>> }
EnvOrigins == { Unset, <<>>, <<"a", ",", " ", ",", "b", " ">> }
EnvWildcard == { Unset, <<" ", "Y", "E", "S", " ">>, <<"0">>, <<"m", "a", "y", "b", "e">> }
EnvSecret == { Unset, <<>>, ClientSecret }

InitBoot ==
  /\ \E p \in EnvPort, o \in EnvOrigins, w \in EnvWildcard, k \in EnvSecret :
       Boot([PORT |-> p, ALLOWED_ORIGINS |-> o, ALLOW_NETLIFY_WILDCARD |-> w,
             WEBHOOK_SECRET |-> k])
  /\ call = NoCall
  /\ ret = <<>>

NextBoot == Startup

\* Importing the module in every environment.
SpecBoot == InitBoot /\ [][NextBoot]_vars

\* ---------------------------------------------------------- the helpers alone
\* the same object as BodyBA, keys in sorted order
BodyAB == <<"{", "\"", "a", "\"", ":", "1", ",", "\"", "b", "\"", ":", "2", "}">>
\* the same object with whitespace between the tokens
BodySpaced == <<" ", "{", " ", "\"", "a", "\"", " ", ":", " ", "1", " ", ",", " ", "\"", "b", "\"", " ", ":", " ", "2", " ", "}", " ">>
\* JSON followed by a byte that is not UTF-8
BodyJsonThenBad == <<"{", "\"", "a", "\"", ":", "1", "}", "<FF>">>
\* text that is not JSON, with whitespace
BodyText == <<" ", "a", " ", "b", " ">>
\* an array
BodyList == <<"[", "1", ",", " ", "2", "]">>
\* the array in the other order (a different value)
BodyListSwapped == <<"[", "2", ",", "1", "]">>
\* nested objects, no keys in sorted order
BodyNested == <<"{", "\"", "b", "\"", ":", "{", "\"", "b", "\"", ":", "1", ",", "\"", "a", "\"", ":", "2", "}", ",", "\"", "a", "\"", ":", "[", "{", "\"", "b", "\"", ":", "t", "r", "u", "e", ",", "\"", "a", "\"", ":", "n", "u", "l", "l", "}", "]", "}">>
\* the same value, keys sorted, a space after "," and ":"
BodyNestedSorted == <<"{", "\"", "a", "\"", ":", " ", "[", "{", "\"", "a", "\"", ":", " ", "n", "u", "l", "l", ",", " ", "\"", "b", "\"", ":", " ", "t", "r", "u", "e", "}", "]", ",", " ", "\"", "b", "\"", ":", " ", "{", "\"", "a", "\"", ":", " ", "2", ",", " ", "\"", "b", "\"", ":", " ", "1", "}", "}">>
\* a repeated key: the last value wins
BodyDup == <<"{", "\"", "a", "\"", ":", "1", ",", "\"", "a", "\"", ":", "2", "}">>
\* what the repeated key amounts to
BodyA2 == <<"{", "\"", "a", "\"", ":", "2", "}">>
\* whitespace inside a string is part of the value
BodyStrSpace == <<"{", "\"", "a", "\"", ":", "\"", "x", " ", "y", "\"", "}">>
\* the same with whitespace outside the string
BodyStrSpaced == <<"{", "\"", "a", "\"", " ", ":", " ", "\"", "x", " ", "y", "\"", "}">>
\* a different string
BodyStrNoSpace == <<"{", "\"", "a", "\"", ":", "\"", "x", "y", "\"", "}">>

FnBodies ==
  { <<>>, BodyBA, BodyAB, BodySpaced, BodyCut, BodyBadUtf8, BodyJsonThenBad, BodyText,
    BodyList, BodyListSwapped, BodyNested, BodyNestedSorted, BodyDup, BodyA2,
    BodyStrSpace, BodyStrSpaced, BodyStrNoSpace }

\* str.upper() on one character.
UpperChar(c) == IF Ord(c) >= 97 /\ Ord(c) <= 122 THEN Printable[Ord(c) - 32 - 31] ELSE c
Upper(s) == [i \in 1..Len(s) |-> UpperChar(s[i])]

\* The secrets a sender may sign with: the two the service is configured with
\* in this specification, and the placeholder.
OtherSecret == <<"s">>
SenderSecrets == { OtherSecret, ClientSecret, DemoSecret }

\* Ways to write a hex digest h into the X-Signature value.
SignatureForms(h) ==
  { h,
    Sha256Prefix \o h,
    Upper(Sha256Prefix) \o h,
    <<"S", "h", "a", "2", "5", "6", "=">> \o h,
    <<" ">> \o Sha256Prefix \o h \o <<" ", "\t">>,
    h \o <<"<A0>">>,
    Upper(h),
    Sha256Prefix \o Sha256Prefix \o h,
    <<"s", "h", "a", "5", "1", "2", "=">> \o h,
    h \o <<"0">> }

\* Values that are no digest at all.
GarbledSignatures ==
  { <<>>, <<" ">>, Sha256Prefix, DeadBeef, Sha256Prefix \o DeadBeef, <<"<E9>">>,
    Sha256Prefix \o <<"<E9>">> }

\* The X-Signature values tried with body b.
FnSignatures(b) ==
  GarbledSignatures \cup
  UNION { SignatureForms(HmacHexDigest(k, normalized_body_for_hmac(b))) : k \in SenderSecrets }

\* The header lists tried with body b: none, X-Signature with each value, the
\* lowercase name, and an empty X-Signature before a signed x-signature.
FnHeaders(b) ==
  { <<>> }
  \cup { SignatureHeader(XSignature, v) : v \in FnSignatures(b) }
  \cup { SignatureHeader(xsignature, v) : v \in { <<>>, ClientSignature(b) } }
  \cup { << <<XSignature, <<>>>>, <<xsignature, ClientSignature(b)>> >> }

InitFn ==
  /\ \E k \in { Unset, OtherSecret, ClientSecret } :
       Boot([NoEnv EXCEPT !["WEBHOOK_SECRET"] = k])
  /\ \E b \in FnBodies : \E h \in FnHeaders(b) : call = [headers |-> h, body |-> b]
  /\ ret = <<>>

Called == phase = "serving" /\ ret = <<>>
FnUnchanged == UNCHANGED <<environ, phase, config, now, pending, answered, client_seen, call>>

\* verify_signature(WEBHOOK_SECRET, body, supplied_sig), as the handler calls it.
CallVerify ==
  /\ Called
  /\ ret' = << [fn |-> "verify_signature",
                out |-> verify_signature(WEBHOOK_SECRET, call.body,
                                         supplied_signature(call.headers))] >>
  /\ FnUnchanged

\* _normalized_body_for_hmac(body)
CallNormalize ==
  /\ Called
  /\ ret' = << [fn |-> "_normalized_body_for_hmac",
                out |-> normalized_body_for_hmac(call.body)] >>
  /\ FnUnchanged

\* demo_example_post on the request, its body read.
CallPost ==
  /\ Called
  /\ ret' = << [fn |-> "demo_example_post",
                out |-> demo_example_post(WEBHOOK_SECRET, call.headers, call.body, now)] >>
  /\ FnUnchanged

\* The canonicalizer and verify_signature on the body and on a second payload,
\* with the same secret and header.
CallTwice ==
  /\ Called
  /\ \E other \in FnBodies :
       ret' = << [fn |-> "twice", other |-> other,
                  normalized |-> << normalized_body_for_hmac(call.body),
                                    normalized_body_for_hmac(other) >>,
                  verified |-> << verify_signature(WEBHOOK_SECRET, call.body,
                                                   supplied_signature(call.headers)),
                                  verify_signature(WEBHOOK_SECRET, other,
                                                   supplied_signature(call.headers)) >>] >>
  /\ FnUnchanged

NextFn ==
  \/ Startup
  \/ CallVerify
  \/ CallNormalize
  \/ CallPost
  \/ CallTwice

\* One call of a helper on every input of the sets above.
SpecFn == InitFn /\ [][NextFn]_vars

\* ------------------------------------------------------------------- claims
\* What the formulas below read of a finished direct call.
Ret(fn) == ret # <<>> /\ ret[1].fn = fn
SecretConfigured == phase = "serving" /\ WEBHOOK_SECRET # <<>>
NoSecret == phase = "serving" /\ WEBHOOK_SECRET = <<>>
Supplied == supplied_signature(call.headers)

\* No X-Signature header, in any letter case of the name, carries a value.
NoSignatureSent(headers) ==
  \A i \in 1..Len(headers) : Lower(headers[i][1]) = xsignature => headers[i][2] = <<>>

\* The hex digest of the canonical form of the call's body under key k.
DigestUnder(k) == HmacHexDigest(k, normalized_body_for_hmac(call.body))

\* The header value with an optional "sha256=" prefix, in any letter case, removed.
WithoutPrefix(h) ==
  IF Len(h) >= Len(Sha256Prefix) /\ Lower(SubSeq(h, 1, Len(Sha256Prefix))) = Sha256Prefix
  THEN SubSeq(h, Len(Sha256Prefix) + 1, Len(h)) ELSE h

C2_NoSecretIsSkipped ==
  NoSecret =>
    /\ Ret("verify_signature") =>
         /\ ~ret[1].out.raised
         /\ ret[1].out.val[1] = PyNone
         /\ ret[1].out.val[2] = Sha256Prefix \o DigestUnder(DemoSecret)
    /\ Ret("demo_example_post") =>
         /\ ret[1].out.status = 200
         /\ ret[1].out.json.signature_valid = PyNone
         /\ ret[1].out.json.note = "signature check skipped (missing secret or header)"

C2_Witness ==
  /\ NoSecret /\ Ret("verify_signature")
  /\ Supplied = Sha256Prefix \o DigestUnder(DemoSecret)
  /\ ret[1].out.val = <<PyNone, Supplied>>

\* C3: with a secret configured, a header that is the lowercase hex digest of
\* the canonical body under that secret, bare or after "sha256=" in any letter
\* case, makes verify_signature return true; and the expected signature it
\* returns always starts with "sha256=".
C3_RightSignatureIsValid ==
  Ret("verify_signature") =>
    /\ (SecretConfigured /\ WithoutPrefix(Supplied) = DigestUnder(WEBHOOK_SECRET)) =>
         ret[1].out = Returned(<<PyTrue, Sha256Prefix \o DigestUnder(WEBHOOK_SECRET)>>)
    /\ ~ret[1].out.raised => StartsWith(ret[1].out.val[2], Sha256Prefix)

C3_Witness ==
  /\ SecretConfigured /\ Ret("verify_signature")
  /\ Supplied = Upper(Sha256Prefix) \o DigestUnder(WEBHOOK_SECRET)
  /\ ret[1].out.val[1] = PyTrue

\* C4: with a secret configured, verify_signature returns true only if the
\* header value, its optional "sha256=" prefix removed, is exactly the expected
\* hex digest, and returns false for every other value.
C4_ValidOnlyIfExactElseInvalid ==
  (SecretConfigured /\ Ret("verify_signature")) =>
    /\ ~ret[1].out.raised
    /\ ret[1].out.val[1] =
         (IF WithoutPrefix(Supplied) = DigestUnder(WEBHOOK_SECRET) THEN PyTrue ELSE PyFalse)

\* Two parsed payloads that are the same JSON value: objects are compared as
\* maps, whatever the order of their keys.
RECURSIVE SemEq(_, _)
SemEq(a, b) ==
  /\ a.t = b.t
  /\ IF a.t = "dict" THEN
       /\ { a.v[i][1] : i \in 1..Len(a.v) } = { b.v[j][1] : j \in 1..Len(b.v) }
       /\ \A i \in 1..Len(a.v) : \A j \in 1..Len(b.v) :
            a.v[i][1] = b.v[j][1] => SemEq(a.v[i][2], b.v[j][2])
     ELSE IF a.t = "list" THEN
       /\ Len(a.v) = Len(b.v)
       /\ \A i \in 1..Len(a.v) : SemEq(a.v[i], b.v[i])
     ELSE a.v = b.v

SameJson(p1, p2) ==
  LoadsBytes(p1).ok /\ LoadsBytes(p2).ok /\ SemEq(LoadsBytes(p1).val, LoadsBytes(p2).val)

\* C5: two JSON payloads that are the same value and differ in key order or in
\* whitespace between tokens canonicalize to the same bytes, and with the same
\* secret and header verify_signature returns the same for both.
C5_SameJsonSameSignature ==
  (Ret("twice") /\ SameJson(call.body, ret[1].other)) =>
    /\ ret[1].normalized[1] = ret[1].normalized[2]
    /\ ret[1].verified[1] = ret[1].verified[2]

C5_Witness ==
  /\ SecretConfigured /\ Ret("twice")
  /\ call.body = BodyNested /\ ret[1].other = BodyNestedSorted
  /\ ret[1].normalized[1] = ret[1].normalized[2]
  /\ ~ret[1].verified[1].raised /\ ret[1].verified[1].val[1] = PyTrue
  /\ ~ret[1].verified[2].raised /\ ret[1].verified[2].val[1] = PyTrue

\* C8: the canonicalizer returns the body itself, byte for byte, whenever the
\* body is not UTF-8 or not JSON, and it returns bytes for every body.
C8_NonJsonUnchanged ==
  Ret("_normalized_body_for_hmac") =>
    /\ ret[1].out \in Seq(DOMAIN CodePoint)
    /\ (~DecodesUtf8(call.body) \/ ~JsonLoads(call.body).ok) => ret[1].out = call.body

C8_Witness ==
  /\ Ret("_normalized_body_for_hmac")
  /\ call.body = BodyText
  /\ ret[1].out = BodyText

\* C6: POST /demo/example answers 200 with the diagnostic fields for every body
\* and every X-Signature value, with or without a secret; no handler raises.
C6_EveryRequestAnswered200 ==
  answered # <<>> =>
    /\ answered[1].response.status = 200
    /\ answered[1].method = "POST" =>
         DOMAIN answered[1].response.json =
           {"service", "received_bytes", "received", "signature_valid",
            "expected_signature", "note", "time"}

\* C7: importing the module never raises, whatever the four environment
\* variables hold: the service starts, and each setting is the coerced value of
\* its variable, its default, or empty.
C7_StartupNeverRaises ==
  /\ phase # "failed"
  /\ phase = "serving" =>
       /\ PORT \in Int
       /\ ALLOW_NETLIFY_WILDCARD \in BOOLEAN
       /\ WEBHOOK_SECRET = getenv("WEBHOOK_SECRET", <<>>)
       /\ \A i \in 1..Len(ALLOWED_ORIGINS) :
            ALLOWED_ORIGINS[i] # <<>> /\ ALLOWED_ORIGINS[i] = Strip(ALLOWED_ORIGINS[i])

\* The secret the process started with.
StartupSecret == getenv("WEBHOOK_SECRET", <<>>)

\* C9: however GET and POST requests interleave, a serving process keeps the
\* configuration startup gave it, and every answer to a POST, also one given
\* while other POSTs are suspended, is what verify_signature gives for the
\* startup secret and that request's own body and header (the status, and
\* signature_valid and expected_signature).
C9_RequestsIndependent ==
  /\ phase = "serving" =>
       /\ PORT = py_int(getenv("PORT", DefaultPort)).val
       /\ ALLOWED_ORIGINS = parse_csv_env("ALLOWED_ORIGINS", DefaultOrigins)
       /\ ALLOW_NETLIFY_WILDCARD = env_bool("ALLOW_NETLIFY_WILDCARD", DefaultWildcard)
       /\ WEBHOOK_SECRET = StartupSecret
  /\ (answered # <<>> /\ answered[1].method = "POST") =>
       LET x == answered[1]
           alone == verify_signature(StartupSecret, x.body, supplied_signature(x.headers))
       IN IF alone.raised THEN x.response.status = 500
          ELSE /\ x.response.status = 200
               /\ x.response.json.signature_valid = alone.val[1]
               /\ x.response.json.expected_signature = alone.val[2]

C9_Witness ==
  /\ answered # <<>> /\ answered[1].method = "POST"
  /\ answered[1].response.status = 200
  /\ answered[1].response.json.signature_valid = PyTrue
  /\ \E other \in BagToSet(pending) : other.body # answered[1].body

\* C10: GET /demo/example answers signature_example null when no secret is
\* configured and a signature when one is; with a secret, a later POST whose
\* body is the example object of such an answer, in any key order and
\* whitespace, and whose X-Signature is its signature_example, is answered
\* signature_valid true and expected_signature equal to that signature_example.
C10_ExampleVerifies ==
  answered # <<>> =>
    LET x == answered[1] IN
    /\ (x.method = "GET" /\ x.path = "/demo/example") =>
         /\ x.response.status = 200
         /\ (WEBHOOK_SECRET = <<>>) = (x.response.json.signature_example = PyNone)
    /\ (x.method = "POST" /\ WEBHOOK_SECRET # <<>>) =>
         \A t \in 0..now :
           LET got == demo_example_get(WEBHOOK_SECRET, t).json IN
           ( /\ LoadsBytes(x.body).ok
             /\ SemEq(LoadsBytes(x.body).val, got.example)
             /\ x.headers = SignatureHeader(XSignature, got.signature_example.v) ) =>
             /\ x.response.status = 200
             /\ x.response.json.signature_valid = PyTrue
             /\ x.response.json.expected_signature = got.signature_example.v

C10_Witness ==
  /\ now = 1
  /\ answered # <<>> /\ answered[1].method = "POST"
  /\ answered[1].body = JsonDumps(ReverseKeys(sample_event(0)), <<",", " ">>, <<":", " ">>, FALSE)
  /\ answered[1].response.status = 200
  /\ answered[1].response.json.signature_valid = PyTrue

====
